---- MODULE Spec2Model ----
(***************************************************************************)
(* Model of tool/internal/pkg/pluginmode/thriftgo/patcher.go (kitex):      *)
(* the patcher's generation loop (patch) and its template helpers          *)
(* filterStdLib, reorderStructFields and filterBase.                       *)
(*                                                                         *)
(* Go strings on which the code does string operations (HasPrefix,         *)
(* Contains, "k-"+base, Unexport) are sequences of one-character strings.  *)
(* A file path is a record [dir, base]: dir is the cleaned directory as a  *)
(* sequence of components, base the last element as a Go string.           *)
(***************************************************************************)
EXTENDS Integers, Sequences, FiniteSets, TLC

VARIABLES req, copyIDL, asts, patches, protection, ret,
          module, imports,
          fields, sortedFields, resorted,
          structs, envelope,
          pc

vars == <<req, copyIDL, asts, patches, protection, ret, module, imports,
          fields, sortedFields, resorted, structs, envelope, pc>>

patchVars == <<req, copyIDL, asts, patches, protection, ret>>
stdLibVars == <<module, imports>>
reorderVars == <<fields, sortedFields, resorted>>
baseVars == <<structs, envelope>>

-----------------------------------------------------------------------------
(* Bounds of the model *)

MaxDocs == 3
MaxImports == 3
MaxFields == 3
MaxStructs == 2
\* fields declared by all the structs of one document
MaxDeclaredFields == 3

-----------------------------------------------------------------------------
(* String literals *)

kPrefix == <<"k","-">>
kConstsGo == <<"k","-","c","o","n","s","t","s",".","g","o">>
constsGo == <<"c","o","n","s","t","s",".","g","o">>
aGo == <<"a",".","g","o">>
bGo == <<"b",".","g","o">>
cGo == <<"c",".","g","o">>
dGo == <<"d",".","g","o">>
eGo == <<"e",".","g","o">>
aThrift == <<"a",".","t","h","r","i","f","t">>
bThrift == <<"b",".","t","h","r","i","f","t">>
cThrift == <<"c",".","t","h","r","i","f","t">>
dThrift == <<"d",".","t","h","r","i","f","t">>
eThrift == <<"e",".","t","h","r","i","f","t">>
kAGo == <<"k","-","a",".","g","o">>
apacheThriftLib == <<"g","i","t","h","u","b",".","c","o","m","/","a","p","a","c","h","e","/","t","h","r","i","f","t","/","l","i","b","/","g","o","/","t","h","r","i","f","t">>
thriftgoPrefix == <<"g","i","t","h","u","b",".","c","o","m","/","c","l","o","u","d","w","e","g","o","/","t","h","r","i","f","t","g","o">>
pthStdStrings == <<"s","t","d","/","s","t","r","i","n","g","s">>
pthModGen == <<"e","x","a","m","p","l","e",".","c","o","m","/","m","o","d","/","g","e","n">>
pthThriftgoGen == <<"g","i","t","h","u","b",".","c","o","m","/","c","l","o","u","d","w","e","g","o","/","t","h","r","i","f","t","g","o","/","g","e","n","e","r","a","t","o","r">>
pthKitex == <<"g","i","t","h","u","b",".","c","o","m","/","c","l","o","u","d","w","e","g","o","/","k","i","t","e","x">>
pthModel == <<"e","x","a","m","p","l","e",".","c","o","m","/","m","o","d","e","l">>
pthLocalNoDot == <<"m","y","m","o","d","/","g","e","n">>
modExample == <<"e","x","a","m","p","l","e",".","c","o","m","/","m","o","d">>
modNoDot == <<"m","y","m","o","d">>
modApache == <<"g","i","t","h","u","b",".","c","o","m","/","a","p","a","c","h","e">>
strBase == <<"b","a","s","e">>
strBaseResp == <<"b","a","s","e","R","e","s","p">>
nmBase == <<"B","a","s","e">>
nmBaseResp == <<"B","a","s","e","R","e","s","p">>
nmBASE == <<"B","A","S","E">>
nmDatabase == <<"d","a","t","a","b","a","s","e">>

-----------------------------------------------------------------------------
(* strings and path/filepath *)

Range(s) == {s[i] : i \in 1..Len(s)}

\* strings.HasPrefix(s, prefix)
HasPrefix(s, prefix) ==
    /\ Len(prefix) <= Len(s)
    /\ \A i \in 1..Len(prefix) : s[i] = prefix[i]

\* strings.Contains(s, substr)
Contains(s, substr) ==
    \E k \in 0..(Len(s) - Len(substr)) :
        \A i \in 1..Len(substr) : s[k + i] = substr[i]

\* filepath.Join(dir, name) of a cleaned directory and one element
Join(dir, name) == [dir |-> dir, base |-> name]

\* filepath.Join(req.OutputPath, path) of a cleaned root and a relative path
JoinPath(root, path) == [dir |-> root \o path.dir, base |-> path.base]

\* filepath.Split(full): the directory and the last element
Split(full) == <<full.dir, full.base>>

\* filepath.Dir(full)
Dir(full) == full.dir

\* filepath.Base(name)
Base(name) == name.base

-----------------------------------------------------------------------------
(* patch: the request *)

\* error values: fmt.Errorf(format, file, cause); the nil error is NoErr
NoErr == [fmt |-> "", file |-> <<>>, cause |-> ""]

Errorf(format, filename, cause) ==
    [fmt |-> format, file |-> <<filename>>, cause |-> cause]

\* an error of a collaborator, returned as it is
Upstream(cause) == [fmt |-> "", file |-> <<>>, cause |-> cause]

kitexUnusedProtection == "KitexUnusedProtection"

ResolvedPaths == {[dir |-> <<"pkg">>, base |-> aGo],
                  [dir |-> <<"pkg">>, base |-> bGo],
                  [dir |-> <<"pkg">>, base |-> constsGo],
                  [dir |-> <<"lib">>, base |-> aGo]}
Filenames == {[dir |-> <<"idl">>, base |-> aThrift],
              [dir |-> <<"idl", "sub">>, base |-> aThrift],
              [dir |-> <<"idl">>, base |-> bThrift],
              [dir |-> <<"idl">>, base |-> kAGo]}

\* p.utils.NamespaceToPackage(ast.GetNamespaceOrReferenceName("go"))
NamespaceToPackage(path) == path.dir[Len(path.dir)]

Document(filename, path) ==
    [Filename |-> filename, path |-> path, pkgName |-> NamespaceToPackage(path)]

GoPool == <<aGo, bGo, cGo, dGo, eGo>>
IdlPool == <<aThrift, bThrift, cThrift, dThrift, eThrift>>

Injective(f) == \A a, b \in DOMAIN f : a # b => f[a] # f[b]

\* requests whose documents vary: the root includes every other document
StarRequests ==
    UNION { { [AST |-> 1,
               OutputPath |-> <<"out">>,
               Includes |-> [d \in 1..n |-> IF d = 1 THEN [i \in 1..(n-1) |-> i + 1] ELSE <<>>],
               Docs |-> [d \in 1..n |-> Document(fn[d], pth[d])]] :
              fn \in {f \in [1..n -> Filenames] : Injective(f)},
              pth \in [1..n -> ResolvedPaths] } : n \in 1..MaxDocs }

\* the ordered arrangements of the subsets of S
RECURSIVE Arrangements(_)
Arrangements(S) ==
    {<<>>} \cup UNION { { <<x>> \o t : t \in Arrangements(S \ {x}) } : x \in S }

\* requests whose include graph varies: any acyclic include lists
ForestRequests ==
    UNION { { [AST |-> 1,
               OutputPath |-> <<"out">>,
               Includes |-> inc,
               Docs |-> [d \in 1..n |->
                          Document([dir |-> <<"idl">>, base |-> IdlPool[d]],
                                   [dir |-> IF d % 2 = 1 THEN <<"pkg">> ELSE <<"lib">>,
                                    base |-> GoPool[d]])]] :
              inc \in {f \in [1..n -> Arrangements(2..n)] :
                         \A d \in 1..n : \A i \in 1..Len(f[d]) : f[d][i] > d} } :
            n \in {MaxDocs} }

-----------------------------------------------------------------------------
(* patch: req.AST.DepthFirstSearch() *)

RECURSIVE dfsVisit(_, _, _)
RECURSIVE dfsIncludes(_, _, _)
dfsVisit(inc, t, order) ==
    IF t \in Range(order) THEN order
    ELSE dfsIncludes(inc, inc[t], Append(order, t))

dfsIncludes(inc, kids, order) ==
    IF kids = <<>> THEN order
    ELSE dfsIncludes(inc, Tail(kids), dfsVisit(inc, Head(kids), order))

DepthFirstSearch(r) == dfsVisit(r.Includes, r.AST, <<>>)

-----------------------------------------------------------------------------
(* patch: the loop body *)

Protection(consts, pkgName) ==
    [Name |-> consts,
     Content |-> [kind |-> kitexUnusedProtection, pkg |-> pkgName, ast |-> 0]]

Rendered(target, d, pkgName) ==
    [Name |-> target, Content |-> [kind |-> "file", pkg |-> pkgName, ast |-> d]]

Copied(path, d) ==
    [Name |-> path, Content |-> [kind |-> "idl", pkg |-> "", ast |-> d]]

\* lines 97-99, 103 with the target joined to the output root
planOutputFlat(r, d) ==
    LET full == JoinPath(r.OutputPath, r.Docs[d].path)
        base == Split(full)[2]
    IN [full |-> full,
        target |-> Join(r.OutputPath, kPrefix \o base),
        consts |-> Join(Dir(full), kConstsGo)]

\* lines 97-99, 103: full, target and consts of a document
planOutput(r, d) ==
    LET full == JoinPath(r.OutputPath, r.Docs[d].path)
        dir == Split(full)[1]
        base == Split(full)[2]
    IN [full |-> full,
        target |-> Join(dir, kPrefix \o base),
        consts |-> Join(Dir(full), kConstsGo)]

\* lines 104-111 without the test of the protection map
protectAlways(ps, prot, r, d) ==
    LET consts == Join(Dir(JoinPath(r.OutputPath, r.Docs[d].path)), kConstsGo)
        patch == Protection(consts, r.Docs[d].pkgName)
    IN [patches |-> Append(ps, patch),
        protection |-> [c \in DOMAIN prot \cup {consts} |->
                          IF c = consts THEN patch ELSE prot[c]]]

\* lines 104-111: k-consts.go, once for each consts path
protect(ps, prot, r, d) ==
    LET consts == planOutput(r, d).consts
        patch == Protection(consts, r.Docs[d].pkgName)
    IN IF consts \notin DOMAIN prot
       THEN [patches |-> Append(ps, patch),
             protection |-> [c \in DOMAIN prot \cup {consts} |->
                               IF c = consts THEN patch ELSE prot[c]]]
       ELSE [patches |-> ps, protection |-> prot]

\* lines 123-126: the rendered file
generate(ps, r, d) ==
    Append(ps, Rendered(planOutput(r, d).target, d, r.Docs[d].pkgName))

\* lines 128-138 without the test of p.copyIDL
copyAlways(ps, r, d, enabled) ==
    Append(ps, Copied(Join(Dir(JoinPath(r.OutputPath, r.Docs[d].path)), Base(r.Docs[d].Filename)), d))

\* lines 128-138: the copy of the IDL
copy(ps, r, d, enabled) ==
    IF enabled
    THEN Append(ps, Copied(Join(Dir(planOutput(r, d).full), Base(r.Docs[d].Filename)), d))
    ELSE ps

Running == [status |-> "running", patches |-> <<>>, err |-> NoErr]

\* return patches, err: the list built so far escapes
FailedPartial(ps, err) == [status |-> "returned", patches |-> ps, err |-> err]

\* return nil, err (ps is the list built so far, which is dropped)
Failed(ps, err) == [status |-> "returned", patches |-> <<>>, err |-> err]

\* return (patches, nil)
Succeeded(ps) == [status |-> "returned", patches |-> ps, err |-> NoErr]

InLoop == pc = "patch" /\ ret.status = "running" /\ asts # <<>>

others == <<module, imports, fields, sortedFields, resorted, structs, envelope, pc>>

\* lines 84-87: BuildScope fails
BuildScopeFails ==
    /\ InLoop
    /\ ret' = Failed(patches, Errorf("build scope for ast %q: %w",
                            req.Docs[Head(asts)].Filename, "BuildScope"))
    /\ UNCHANGED <<req, copyIDL, asts, patches, protection, others>>

\* lines 93-96: GetFilePath fails
GetFilePathFails ==
    /\ InLoop
    /\ ret' = Failed(patches, Upstream("GetFilePath"))
    /\ UNCHANGED <<req, copyIDL, asts, patches, protection, others>>

\* lines 97-118: ResolveImports fails, after k-consts.go was added
ResolveImportsFails ==
    /\ InLoop
    /\ LET s == protect(patches, protection, req, Head(asts))
       IN /\ patches' = s.patches
          /\ protection' = s.protection
    /\ ret' = Failed(patches', Errorf("resolve imports failed for %q: %w",
                            req.Docs[Head(asts)].Filename, "ResolveImports"))
    /\ UNCHANGED <<req, copyIDL, asts, others>>

\* lines 97-122: ExecuteTemplate fails, after k-consts.go was added
ExecuteTemplateFails ==
    /\ InLoop
    /\ LET s == protect(patches, protection, req, Head(asts))
       IN /\ patches' = s.patches
          /\ protection' = s.protection
    /\ ret' = Failed(patches', Errorf("%q: %w", req.Docs[Head(asts)].Filename, "ExecuteTemplate"))
    /\ UNCHANGED <<req, copyIDL, asts, others>>

\* lines 97-132: ReadFile fails, after the rendered file was added
ReadFileFails ==
    /\ InLoop
    /\ copyIDL
    /\ LET s == protect(patches, protection, req, Head(asts))
       IN /\ patches' = generate(s.patches, req, Head(asts))
          /\ protection' = s.protection
    /\ ret' = Failed(patches', Errorf("read %q: %w", req.Docs[Head(asts)].Filename, "ReadFile"))
    /\ UNCHANGED <<req, copyIDL, asts, others>>

\* lines 83-139 with the rest of the body skipped once k-consts.go exists
VisitNewDirectoryOnly ==
    /\ InLoop
    /\ LET d == Head(asts)
           s == protect(patches, protection, req, d)
       IN /\ patches' = IF planOutput(req, d).consts \in DOMAIN protection
                        THEN patches
                        ELSE copy(generate(s.patches, req, d), req, d, copyIDL)
          /\ protection' = s.protection
    /\ asts' = Tail(asts)
    /\ UNCHANGED <<req, copyIDL, ret, others>>

\* lines 83-139: one document, no failure
Visit ==
    /\ InLoop
    /\ LET d == Head(asts)
           s == protect(patches, protection, req, d)
       IN /\ patches' = copy(generate(s.patches, req, d), req, d, copyIDL)
          /\ protection' = s.protection
    /\ asts' = Tail(asts)
    /\ UNCHANGED <<req, copyIDL, ret, others>>

\* line 140: the channel is drained
Return ==
    /\ pc = "patch" /\ ret.status = "running" /\ asts = <<>>
    /\ ret' = Succeeded(patches)
    /\ UNCHANGED <<req, copyIDL, asts, patches, protection, others>>

Idle == "-"

InitPatch ==
    /\ pc = "patch"
    /\ req \in StarRequests \cup ForestRequests
    /\ copyIDL \in BOOLEAN
    /\ asts = DepthFirstSearch(req)
    /\ patches = <<>>
    /\ protection = <<>>
    /\ ret = Running
    /\ module = Idle /\ imports = Idle
    /\ fields = Idle /\ sortedFields = Idle /\ resorted = Idle
    /\ structs = Idle /\ envelope = Idle

Init == InitPatch

Next ==
    \/ BuildScopeFails
    \/ GetFilePathFails
    \/ ResolveImportsFails
    \/ ExecuteTemplateFails
    \/ ReadFileFails
    \/ Visit
    \/ Return

Spec == Init /\ [][Next]_vars

-----------------------------------------------------------------------------
(* filterStdLib *)

dot == <<".">>
slash == <<"/">>

\* delete(imports, pth)
delete(m, pth) == [p \in DOMAIN m \ {pth} |-> m[p]]

\* lines 192-203 with the local-module test left out
visitImportNoLocal(prefix, m, pth) ==
    LET m1 == IF pth = apacheThriftLib THEN delete(m, pth) ELSE m
        m2 == IF HasPrefix(pth, thriftgoPrefix) THEN delete(m1, pth) ELSE m1
    IN IF ~Contains(pth, dot) THEN delete(m2, pth) ELSE m2

\* lines 192-203: the body of the loop for one path
visitImport(prefix, m, pth) ==
    IF HasPrefix(pth, prefix)
    THEN m
    ELSE LET m1 == IF pth = apacheThriftLib THEN delete(m, pth) ELSE m
             m2 == IF HasPrefix(pth, thriftgoPrefix) THEN delete(m1, pth) ELSE m1
         IN IF ~Contains(pth, dot) THEN delete(m2, pth) ELSE m2

\* line 191: for pth := range imports, over the paths still to visit
RECURSIVE rangeImports(_, _, _)
rangeImports(prefix, m, pths) ==
    IF pths = {} THEN m
    ELSE LET pth == CHOOSE x \in pths : TRUE
         IN rangeImports(prefix, visitImport(prefix, m, pth), pths \ {pth})

\* lines 188-205
filterStdLib(mod, m) == rangeImports(mod \o slash, m, DOMAIN m)

\* p.module; it is empty when no module is configured
Modules == {modExample, modNoDot, modApache, <<>>}
ImportPaths == {pthStdStrings, pthModGen, apacheThriftLib, thriftgoPrefix,
                pthThriftgoGen, pthKitex, pthModel, pthLocalNoDot}
Aliases == {"", "gen"}

ImportMappings ==
    UNION { [S -> Aliases] : S \in {T \in SUBSET ImportPaths : Cardinality(T) <= MaxImports} }

InitStdLib ==
    /\ pc = "filterStdLib"
    /\ module \in Modules
    /\ imports \in ImportMappings
    /\ req = Idle /\ copyIDL = Idle /\ asts = Idle /\ patches = Idle
    /\ protection = Idle /\ ret = Idle
    /\ fields = Idle /\ sortedFields = Idle /\ resorted = Idle
    /\ structs = Idle /\ envelope = Idle

\* line 119: p.filterStdLib(data.Imports), in place
FilterStdLib ==
    /\ pc = "filterStdLib"
    /\ imports' = filterStdLib(module, imports)
    /\ pc' = "filtered"
    /\ UNCHANGED <<module, patchVars, reorderVars, baseVars>>

NextStdLib == FilterStdLib

SpecStdLib == InitStdLib /\ [][NextStdLib]_vars

IsLocal(pth) == HasPrefix(pth, module \o slash)
IsDropped(pth) ==
    \/ pth = apacheThriftLib
    \/ HasPrefix(pth, thriftgoPrefix)
    \/ ~Contains(pth, dot)

\* C3 as stated: after filterStdLib no entry starts with the module prefix,
\* equals the legacy runtime path, starts with the generator-support prefix
\* or lacks a '.'.
C3_Original_Closure ==
    pc = "filtered" => \A pth \in DOMAIN imports : ~IsLocal(pth) /\ ~IsDropped(pth)

ScenarioImports ==
    [pth \in {pthStdStrings, pthModGen, apacheThriftLib} |->
        IF pth = pthModGen THEN "gen" ELSE ""]

\* C3 amended: filterStdLib keeps, with its alias, every entry that starts
\* with <module>/ (whatever else it matches) and every entry that is neither
\* the legacy runtime path, nor under the generator-support prefix, nor
\* without a '.'; it removes all others.  The scenario mapping with module
\* root example.com/mod filters to {"example.com/mod/gen": "gen"}.
C3_FilterKeepsLocal ==
    [][ (pc = "filterStdLib" /\ pc' = "filtered") =>
          /\ DOMAIN imports' = {pth \in DOMAIN imports : IsLocal(pth) \/ ~IsDropped(pth)}
          /\ \A pth \in DOMAIN imports' : imports'[pth] = imports[pth]
          /\ (module = modExample /\ imports = ScenarioImports)
                => imports' = [pth \in {pthModGen} |-> "gen"] ]_vars

\* the scenario's result: only the local-module entry is left
C3_Witness ==
    /\ pc = "filtered"
    /\ module = modExample
    /\ DOMAIN imports = {pthModGen}
    /\ imports[pthModGen] = "gen"

-----------------------------------------------------------------------------
(* reorderStructFields *)

Field(name, type) == [Name |-> name, Type |-> type]

FieldPool == {Field("id", "i64"), Field("name", "string"), Field("active", "bool"),
              Field("tags", "list<string>"), Field("next", "Unresolved")}

\* p.utils.IsFixedLengthType(field.Type)
IsFixedLengthType(type) ==
    IF type \in {"i64", "bool"} THEN [ok |-> TRUE, err |-> ""]
    ELSE IF type \in {"string", "list<string>"} THEN [ok |-> FALSE, err |-> ""]
    ELSE [ok |-> FALSE, err |-> "IsFixedLengthType"]

\* lines 164-171: the map of the classes, or the first error
RECURSIVE classify(_, _, _)
classify(fs, i, m) ==
    IF i > Len(fs) THEN [fixedLengthFields |-> m, err |-> ""]
    ELSE LET r == IsFixedLengthType(fs[i].Type)
         IN IF r.err # ""
            THEN [fixedLengthFields |-> m, err |-> r.err]
            ELSE classify(fs, i + 1,
                          [f \in DOMAIN m \cup {fs[i]} |-> IF f = fs[i] THEN r.ok ELSE m[f]])

\* lines 174-178 and 179-183: append the fields of one class, in order
RECURSIVE appendClass(_, _, _, _, _)
appendClass(fs, i, m, class, acc) ==
    IF i > Len(fs) THEN acc
    ELSE appendClass(fs, i + 1, m, class,
                     IF m[fs[i]] = class THEN Append(acc, fs[i]) ELSE acc)

Reverse(s) == [i \in 1..Len(s) |-> s[Len(s) + 1 - i]]

\* the variable-width fields put first
reorderVariableFirst(fs) ==
    LET c == classify(fs, 1, <<>>)
    IN IF c.err # "" THEN [fields |-> <<>>, err |-> c.err]
       ELSE [fields |-> appendClass(fs, 1, c.fixedLengthFields, TRUE,
                           appendClass(fs, 1, c.fixedLengthFields, FALSE, <<>>)),
             err |-> ""]

\* the second loop running from the last field to the first
reorderSecondLoopBackwards(fs) ==
    LET c == classify(fs, 1, <<>>)
    IN IF c.err # "" THEN [fields |-> <<>>, err |-> c.err]
       ELSE [fields |-> appendClass(fs, 1, c.fixedLengthFields, TRUE, <<>>)
                        \o Reverse(appendClass(fs, 1, c.fixedLengthFields, FALSE, <<>>)),
             err |-> ""]

\* lines 163-186
reorderStructFields(fs) ==
    LET c == classify(fs, 1, <<>>)
    IN IF c.err # "" THEN [fields |-> <<>>, err |-> c.err]
       ELSE [fields |-> appendClass(fs, 1, c.fixedLengthFields, FALSE,
                           appendClass(fs, 1, c.fixedLengthFields, TRUE, <<>>)),
             err |-> ""]

RECURSIVE SeqsUpTo(_, _)
SeqsUpTo(S, n) ==
    IF n = 0 THEN {<<>>}
    ELSE SeqsUpTo(S, n - 1) \cup {Append(t, x) : t \in {u \in SeqsUpTo(S, n - 1) : Len(u) = n - 1}, x \in S}

InitReorder ==
    /\ pc = "reorder"
    /\ fields \in SeqsUpTo(FieldPool, MaxFields)
    /\ sortedFields = Idle /\ resorted = Idle
    /\ req = Idle /\ copyIDL = Idle /\ asts = Idle /\ patches = Idle
    /\ protection = Idle /\ ret = Idle
    /\ module = Idle /\ imports = Idle
    /\ structs = Idle /\ envelope = Idle

\* ReorderStructFields called by the template on a struct's fields
Reorder ==
    /\ pc = "reorder"
    /\ sortedFields' = reorderStructFields(fields)
    /\ pc' = "reordered"
    /\ UNCHANGED <<fields, resorted, patchVars, stdLibVars, baseVars>>

\* ReorderStructFields called on the fields it returned
ReorderAgain ==
    /\ pc = "reordered"
    /\ sortedFields.err = ""
    /\ resorted' = reorderStructFields(sortedFields.fields)
    /\ pc' = "resorted"
    /\ UNCHANGED <<fields, sortedFields, patchVars, stdLibVars, baseVars>>

NextReorder == Reorder \/ ReorderAgain

SpecReorder == InitReorder /\ [][NextReorder]_vars

Fixed(f) == IsFixedLengthType(f.Type).ok
NeverErrors(fs) == \A i \in 1..Len(fs) : IsFixedLengthType(fs[i].Type).err = ""
Rearrangements(n) == {g \in [1..n -> 1..n] : \A a, b \in 1..n : a # b => g[a] # g[b]}

\* out is a stable partition of in: a rearrangement of its positions with the
\* fixed-width fields first and the order kept within each class
StablePartition(in, out) ==
    /\ Len(out) = Len(in)
    /\ \E g \in Rearrangements(Len(in)) :
         /\ \A i \in 1..Len(in) : out[i] = in[g[i]]
         /\ \A i, j \in 1..Len(in) :
              i < j => /\ Fixed(out[i]) \/ ~Fixed(out[j])
                       /\ (Fixed(out[i]) = Fixed(out[j])) => g[i] < g[j]

\* C4: when the fixed-width predicate errors on no field, reorderStructFields
\* returns without error a stable partition of its input; {id: i64, name:
\* string, active: bool} becomes {id, active, name}.
C4_StablePartition ==
    (pc \in {"reordered", "resorted"} /\ NeverErrors(fields)) =>
      /\ sortedFields.err = ""
      /\ StablePartition(fields, sortedFields.fields)
      /\ fields = <<Field("id", "i64"), Field("name", "string"), Field("active", "bool")>>
           => sortedFields.fields =
                <<Field("id", "i64"), Field("active", "bool"), Field("name", "string")>>

\* the scenario record, reordered
C4_Witness ==
    /\ pc = "reordered"
    /\ fields = <<Field("id", "i64"), Field("name", "string"), Field("active", "bool")>>
    /\ sortedFields.fields =
         <<Field("id", "i64"), Field("active", "bool"), Field("name", "string")>>

\* C5: reordering the reordered fields changes nothing.
C5_Idempotent ==
    pc = "resorted" => (resorted.err = "" /\ resorted.fields = sortedFields.fields)

\* a second call on a result that differs from the declaration order
C5_Witness ==
    /\ pc = "resorted"
    /\ sortedFields.fields # fields
    /\ \E i, j \in 1..Len(fields) : i < j /\ ~Fixed(fields[i]) /\ ~Fixed(fields[j]) /\ fields[i] # fields[j]
    /\ resorted.fields = sortedFields.fields

-----------------------------------------------------------------------------
(* filterBase *)

UpperCase == <<"A","B","C","D","E","F","G","H","I","J","K","L","M",
               "N","O","P","Q","R","S","T","U","V","W","X","Y","Z">>
LowerCase == <<"a","b","c","d","e","f","g","h","i","j","k","l","m",
               "n","o","p","q","r","s","t","u","v","w","x","y","z">>

ToLower(c) ==
    IF \E i \in 1..Len(UpperCase) : UpperCase[i] = c
    THEN LowerCase[CHOOSE i \in 1..Len(UpperCase) : UpperCase[i] = c]
    ELSE c

\* p.utils.Unexport(f.Name): the name with its first letter in lower case
Unexport(name) ==
    IF name = <<>> THEN name ELSE <<ToLower(Head(name))>> \o Tail(name)

FieldKinds ==
    {[Name |-> nmBase, Type |-> [Name |-> "base.Base"]],
     [Name |-> strBaseResp, Type |-> [Name |-> "base.BaseResp"]],
     [Name |-> strBase, Type |-> [Name |-> "base.BaseResp"]],
     [Name |-> nmBASE, Type |-> [Name |-> "base.Base"]],
     [Name |-> nmDatabase, Type |-> [Name |-> "base.Base"]],
     [Name |-> strBase, Type |-> [Name |-> "base.base"]]}

\* the sequences over S of length n
RECURSIVE SeqsOfLen(_, _)
SeqsOfLen(S, n) ==
    IF n = 0 THEN {<<>>} ELSE {Append(t, x) : t \in SeqsOfLen(S, n - 1), x \in S}

\* ast.GetStructLike(): n structs that declare at most budget fields in all
RECURSIVE StructLists(_, _)
StructLists(n, budget) ==
    IF n = 0 THEN {<<>>}
    ELSE UNION { { <<[Fields |-> fs]>> \o rest :
                   fs \in SeqsOfLen(FieldKinds, k), rest \in StructLists(n - 1, budget - k) } :
                 k \in 0..budget }

\* lines 149-154 with a Requests match that ends the struct's loop
RECURSIVE rangeFieldsFirstMatch(_, _, _, _)
rangeFieldsFirstMatch(fs, j, s, acc) ==
    IF j > Len(fs) THEN acc
    ELSE LET fn == Unexport(fs[j].Name)
             tn == fs[j].Type.Name
         IN IF fn = strBase /\ tn = "base.Base"
            THEN [req |-> Append(acc.req, s), res |-> acc.res]
            ELSE rangeFieldsFirstMatch(fs, j + 1, s,
                    [req |-> acc.req,
                     res |-> IF fn = strBaseResp /\ tn = "base.BaseResp"
                             THEN Append(acc.res, s) ELSE acc.res])

\* lines 146-155: the fields of struct s, from field j on
RECURSIVE rangeFields(_, _, _, _)
rangeFields(fs, j, s, acc) ==
    IF j > Len(fs) THEN acc
    ELSE LET fn == Unexport(fs[j].Name)
             tn == fs[j].Type.Name
             req1 == IF fn = strBase /\ tn = "base.Base" THEN Append(acc.req, s) ELSE acc.req
             res1 == IF fn = strBaseResp /\ tn = "base.BaseResp" THEN Append(acc.res, s) ELSE acc.res
         IN rangeFields(fs, j + 1, s, [req |-> req1, res |-> res1])

\* lines 145-156: the structs from struct s on; a struct is named by its
\* position in GetStructLike()
RECURSIVE rangeStructs(_, _, _)
rangeStructs(ss, s, acc) ==
    IF s > Len(ss) THEN acc
    ELSE rangeStructs(ss, s + 1, rangeFields(ss[s].Fields, 1, s, acc))

\* lines 143-161
filterBase(ss) ==
    LET r == rangeStructs(ss, 1, [req |-> <<>>, res |-> <<>>])
    IN [Requests |-> r.req, Responses |-> r.res]

InitBase ==
    /\ pc = "filterBase"
    /\ structs \in UNION {StructLists(n, MaxDeclaredFields) : n \in 0..MaxStructs}
    /\ envelope = Idle
    /\ req = Idle /\ copyIDL = Idle /\ asts = Idle /\ patches = Idle
    /\ protection = Idle /\ ret = Idle
    /\ module = Idle /\ imports = Idle
    /\ fields = Idle /\ sortedFields = Idle /\ resorted = Idle

\* FilterBase called by the template on the document
FilterBase ==
    /\ pc = "filterBase"
    /\ envelope' = filterBase(structs)
    /\ pc' = "filteredBase"
    /\ UNCHANGED <<structs, patchVars, stdLibVars, reorderVars>>

NextBase == FilterBase

SpecBase == InitBase /\ [][NextBase]_vars

\* the fields of struct s whose name is base or Base (resp. baseResp or
\* BaseResp) and whose type name is exactly the envelope's
RequestFields(s) ==
    {j \in 1..Len(structs[s].Fields) :
        /\ structs[s].Fields[j].Name \in {strBase, nmBase}
        /\ structs[s].Fields[j].Type.Name = "base.Base"}
ResponseFields(s) ==
    {j \in 1..Len(structs[s].Fields) :
        /\ structs[s].Fields[j].Name \in {strBaseResp, nmBaseResp}
        /\ structs[s].Fields[j].Type.Name = "base.BaseResp"}

Occurrences(list, s) == Cardinality({i \in 1..Len(list) : list[i] = s})
Ascending(list) == \A i, j \in 1..Len(list) : i < j => list[i] <= list[j]

\* C6: Requests lists each struct once for each of its fields named base
\* (after Unexport) of type base.Base, Responses once for each field named
\* baseResp of type base.BaseResp, in declaration order; no other field
\* contributes an entry.
C6_PerFieldExactMatch ==
    pc = "filteredBase" =>
      /\ \A s \in 1..Len(structs) :
           /\ Occurrences(envelope.Requests, s) = Cardinality(RequestFields(s))
           /\ Occurrences(envelope.Responses, s) = Cardinality(ResponseFields(s))
      /\ Range(envelope.Requests) \cup Range(envelope.Responses) \subseteq 1..Len(structs)
      /\ Ascending(envelope.Requests)
      /\ Ascending(envelope.Responses)

\* a struct with two qualifying fields, listed twice
C6_Witness ==
    /\ pc = "filteredBase"
    /\ \E s \in 1..Len(structs) :
         /\ Cardinality(RequestFields(s)) = 2
         /\ Occurrences(envelope.Requests, s) = 2

-----------------------------------------------------------------------------
(* patch: properties *)

Done == ret.status = "returned" /\ ret.err = NoErr
Aborted == ret.status = "returned" /\ ret.err # NoErr

\* the documents in the order the loop receives them
Order == DepthFirstSearch(req)

\* the documents the root reaches through includes, as a least fixed point
RECURSIVE Closure(_, _)
Closure(inc, S) ==
    LET T == S \cup UNION {Range(inc[d]) : d \in S}
    IN IF T = S THEN S ELSE Closure(inc, T)

Reachable == Closure(req.Includes, {req.AST})

OutDir(d) == req.OutputPath \o req.Docs[d].path.dir
OutDirsUsed == {OutDir(d) : d \in Range(Order)}

IsProtectionUnit(u) == u.Content.kind = kitexUnusedProtection
IsGeneratedFor(u, d) == u.Content.kind = "file" /\ u.Content.ast = d
IsCopyFor(u, d) == u.Content.kind = "idl" /\ u.Content.ast = d

Indexes(ps) == 1..Len(ps)
ProtectionAt(ps, dir) ==
    {i \in Indexes(ps) : IsProtectionUnit(ps[i]) /\ ps[i].Name = [dir |-> dir, base |-> kConstsGo]}
GeneratedAt(ps, d) == {i \in Indexes(ps) : IsGeneratedFor(ps[i], d)}

\* the first document of the traversal that maps to dir
FirstIn(dir) ==
    Order[CHOOSE k \in 1..Len(Order) :
            /\ OutDir(Order[k]) = dir
            /\ \A j \in 1..(k-1) : OutDir(Order[j]) # dir]

\* C1: a successful run returns, for each output directory some document maps
\* to, exactly one protection unit <directory>/k-consts.go, placed before the
\* generated unit of the first document visited for that directory, and no
\* other protection unit; without verbatim copies the list holds one unit for
\* each document and one for each directory.
C1_OneProtectionPerDirectory ==
    Done =>
      /\ \A dir \in OutDirsUsed :
           /\ Cardinality(ProtectionAt(ret.patches, dir)) = 1
           /\ Cardinality(GeneratedAt(ret.patches, FirstIn(dir))) = 1
           /\ \A i \in ProtectionAt(ret.patches, dir) :
                \A j \in GeneratedAt(ret.patches, FirstIn(dir)) : i < j
      /\ Cardinality({i \in Indexes(ret.patches) : IsProtectionUnit(ret.patches[i])})
           = Cardinality(OutDirsUsed)
      /\ ~copyIDL => Len(ret.patches) = Len(Order) + Cardinality(OutDirsUsed)

\* two documents in one directory, no verbatim copy: three units
C1_Witness ==
    /\ Done /\ ~copyIDL
    /\ Len(Order) = 2
    /\ OutDir(Order[1]) = OutDir(Order[2])
    /\ Len(ret.patches) = 3

DistinctNames(ps) == \A i, j \in Indexes(ps) : i # j => ps[i].Name # ps[j].Name

DistinctResolvedPaths ==
    \A a, b \in Range(Order) : a # b => req.Docs[a].path # req.Docs[b].path

\* C2 as stated: with pairwise distinct resolved paths no two returned units
\* share a file path.
C2_Original_NoSharedPath ==
    (Done /\ DistinctResolvedPaths) => DistinctNames(ret.patches)

\* the copy names of one directory differ, and none carries the marker k-
CopyNamesApart ==
    /\ \A a, b \in Range(Order) :
         (a # b /\ OutDir(a) = OutDir(b))
            => Base(req.Docs[a].Filename) # Base(req.Docs[b].Filename)
    /\ \A a \in Range(Order) : ~HasPrefix(Base(req.Docs[a].Filename), kPrefix)

\* C2 amended: with pairwise distinct resolved paths, none of which has the
\* base name consts.go, and (with verbatim copy) IDL base names that differ
\* within a directory and do not start with k-, no two returned units share a
\* file path.
C2_NoSharedPath ==
    ( /\ Done
      /\ DistinctResolvedPaths
      /\ \A d \in Range(Order) : req.Docs[d].path.base # constsGo
      /\ copyIDL => CopyNamesApart )
    => DistinctNames(ret.patches)

\* two documents of one directory, copied verbatim, all six paths distinct
C2_Witness ==
    /\ Done /\ copyIDL /\ DistinctResolvedPaths /\ CopyNamesApart
    /\ \A d \in Range(Order) : req.Docs[d].path.base # constsGo
    /\ \E a, b \in Range(Order) : a # b /\ OutDir(a) = OutDir(b)
    /\ DistinctNames(ret.patches)

\* C7: a successful run returns exactly one generated unit for each document
\* the root reaches (none for any other), in traversal order, also for a
\* document that several documents include.
C7_VisitOnce ==
    Done =>
      /\ \A d \in DOMAIN req.Docs :
           Cardinality(GeneratedAt(ret.patches, d)) = IF d \in Reachable THEN 1 ELSE 0
      /\ Cardinality({i \in Indexes(ret.patches) : ret.patches[i].Content.kind = "file"})
           = Cardinality(Reachable)
      /\ \A a, b \in 1..Len(Order) :
           a < b => \A i \in GeneratedAt(ret.patches, Order[a]) :
                      \A j \in GeneratedAt(ret.patches, Order[b]) : i < j

\* a document included by two other documents, all three reached
C7_Witness ==
    /\ Done
    /\ \E D \in Reachable : \E A, B \in Reachable :
         /\ A # B
         /\ D \in Range(req.Includes[A])
         /\ D \in Range(req.Includes[B])
         /\ Cardinality(GeneratedAt(ret.patches, D)) = 1

\* C8: when a failure occurs, patch returns an error and no list, whatever
\* had been appended, and nothing more is processed.
C8_FailureReturnsNoList ==
    Aborted => (ret.patches = <<>> /\ ~ENABLED Next)

\* a failure after units were appended, with documents still to come
C8_Witness ==
    /\ Aborted
    /\ patches # <<>>
    /\ Len(asts) > 1
    /\ ret.patches = <<>>

\* C9 as stated: every error patch returns carries the filename of the
\* document that was being processed.
C9_ErrorCarriesFilename ==
    Aborted => ret.err.file = <<req.Docs[Head(asts)].Filename>>

\* the units of the k-th document of the traversal
Block(k) ==
    LET d == Order[k]
        dir == OutDir(d)
    IN (IF \A j \in 1..(k-1) : OutDir(Order[j]) # dir
        THEN <<[Name |-> [dir |-> dir, base |-> kConstsGo],
                Content |-> [kind |-> kitexUnusedProtection,
                             pkg |-> req.Docs[d].pkgName, ast |-> 0]]>>
        ELSE <<>>)
       \o <<[Name |-> [dir |-> dir, base |-> kPrefix \o req.Docs[d].path.base],
             Content |-> [kind |-> "file", pkg |-> req.Docs[d].pkgName, ast |-> d]]>>
       \o (IF copyIDL
           THEN <<[Name |-> [dir |-> dir, base |-> req.Docs[d].Filename.base],
                   Content |-> [kind |-> "idl", pkg |-> "", ast |-> d]]>>
           ELSE <<>>)

RECURSIVE Blocks(_)
Blocks(k) == IF k = 0 THEN <<>> ELSE Blocks(k - 1) \o Block(k)

\* C10: the list of a successful run is, document by document in traversal
\* order, [the protection unit if the document is the first of its
\* directory], the generated unit, [the verbatim copy <directory>/<IDL base
\* name> if the mode is enabled]; with the mode disabled no copy is appended.
C10_CopyFollowsGenerated ==
    Done =>
      /\ ret.patches = Blocks(Len(Order))
      /\ ~copyIDL => \A i \in Indexes(ret.patches) : ret.patches[i].Content.kind # "idl"

\* verbatim copy on, two documents in one directory
C10_Witness ==
    /\ Done /\ copyIDL
    /\ \E a, b \in Range(Order) : a # b /\ OutDir(a) = OutDir(b)
    /\ \E i \in Indexes(ret.patches) :
         /\ i > 1
         /\ IsCopyFor(ret.patches[i], Order[Len(Order)])
         /\ IsGeneratedFor(ret.patches[i - 1], Order[Len(Order)])

====
